---- MODULE Spec2Model ----
(***************************************************************************)
(* Family Group Report (gramps/plugins/textreport/familygroup.py).         *)
(*                                                                         *)
(* The report is a sequential walk over database records that appends      *)
(* calls to a document.  The model keeps the database, the options, the    *)
(* call stack of dump_family, the driver's position and the document (the  *)
(* sequence of calls made so far).  Strings are sequences of pieces so     *)
(* that concatenation, emptiness tests and "%d" formatting are computed.   *)
(***************************************************************************)
EXTENDS Integers, Sequences, FiniteSets, TLC

VARIABLES
    menu,      \* FamilyGroupOptions: the filter, center family and recursive options
    db,        \* the database: person, family, event and note tables, family handle list
    opts,      \* the option values read in FamilyGroup.__init__
    filter,    \* self.filter: <<>> (None) or <<set of accepted family handles>>
    pc,        \* position of write_report
    fam_list,  \* write_report's fam_list
    fam_pos,   \* index in fam_list of the family the driver loop is at
    stack,     \* frames of dump_family, innermost last
    doc,       \* the document: sequence of the calls made on self.doc
    ticks,     \* number of step() calls of the writing phase
    callLog    \* history: one entry per dump_family call (handle, generation, depth, caller)

vars == <<menu, db, opts, filter, pc, fam_list, fam_pos, stack, doc, ticks, callLog>>

----------------------------------------------------------------------------
(* Bounds *)

MaxEvents == 2      \* longest family event reference list
MaxChildren == 2    \* longest child reference list of the root family
MaxDepth == 3       \* deepest dump_family recursion followed
MaxChanges == 3     \* longest sequence of filter changes followed

----------------------------------------------------------------------------
(* Strings *)

Empty == <<>>
S(s) == <<s>>

\* "%d" % n
FormatInt(n) == S(ToString(n))

\* " (%s)" % s
Paren(s) == S(" (") \o s \o S(")")

\* " (%s - %s)" % (a, b)
ParenRange(a, b) == S(" (") \o a \o S(" - ") \o b \o S(")")

\* "%(str1)s: %(str2)s" % {...}
ColonJoin(a, b) == a \o S(": ") \o b

NoHandle == ""

----------------------------------------------------------------------------
(* Document calls *)

Call(op, name, style, text, span) ==
    [op |-> op, name |-> name, style |-> style, text |-> text, span |-> span]

\* name and text are strings (sequences of pieces), style a style name.
StartTable(name, style) == Call("start_table", name, style, Empty, 0)
EndTable == Call("end_table", Empty, "", Empty, 0)
StartRow == Call("start_row", Empty, "", Empty, 0)
EndRow == Call("end_row", Empty, "", Empty, 0)
StartCell(style, span) == Call("start_cell", Empty, style, Empty, span)
EndCell == Call("end_cell", Empty, "", Empty, 0)
StartParagraph(style) == Call("start_paragraph", Empty, style, Empty, 0)
EndParagraph == Call("end_paragraph", Empty, "", Empty, 0)
WriteText(text) == Call("write_text", Empty, "", text, 0)
WriteStyledNote(text, style) == Call("write_styled_note", Empty, style, text, 0)
PageBreak == Call("page_break", Empty, "", Empty, 0)

\* A cell holding one paragraph with one text.
TextCell(cellStyle, span, paraStyle, text) ==
    << StartCell(cellStyle, span), StartParagraph(paraStyle), WriteText(text),
       EndParagraph, EndCell >>

\* A cell holding one empty paragraph.
BlankCell(cellStyle, paraStyle) ==
    << StartCell(cellStyle, 1), StartParagraph(paraStyle), EndParagraph, EndCell >>

\* Result of a routine: the calls it made and whether it ran to its end
\* (ok = FALSE: a handle lookup failed and the exception left the routine).
Done(calls) == [calls |-> calls, ok |-> TRUE]
Raised(calls) == [calls |-> calls, ok |-> FALSE]
Then(a, b) == IF a.ok THEN [calls |-> a.calls \o b.calls, ok |-> b.ok] ELSE a

----------------------------------------------------------------------------
(* Database records *)

MARRIAGE == "Marriage"
DIVORCE == "Divorce"
BIRTH == "Birth"
DEATH == "Death"
OCCUPATION == "Occupation"

FAMILY == "Family"
PRIMARY == "Primary"
WITNESS_ROLE == "Witness"

MALE == "male"
FEMALE == "female"
UNKNOWN == "unknown"

HTML_CODE == "Html code"
GENERAL == "General"

EventRec(type, date, place, descr, attrs) ==
    [type |-> type, date |-> date, place |-> place, descr |-> descr, attrs |-> attrs]

EventRef(ref, role) == [ref |-> ref, role |-> role]

Attr(type, value) == [type |-> type, value |-> value]

\* birth and death are positions in evrefs (0: no reference), as the database
\* keeps birth_ref_index and death_ref_index.
PersonRec(name, gid, gender, evrefs, birth, death, parents, addrs, notes, attrs, altnames) ==
    [name |-> name, gid |-> gid, gender |-> gender, evrefs |-> evrefs,
     birth |-> birth, death |-> death, parents |-> parents, addrs |-> addrs,
     notes |-> notes, attrs |-> attrs, altnames |-> altnames]

\* Person(): the empty person dump_parent builds for an absent handle.
EmptyPerson ==
    PersonRec(Empty, Empty, UNKNOWN, <<>>, 0, 0, NoHandle, <<>>, <<>>, <<>>, <<>>)

FamilyRec(father, mother, children, evrefs, attrs, notes, gid) ==
    [father |-> father, mother |-> mother, children |-> children, evrefs |-> evrefs,
     attrs |-> attrs, notes |-> notes, gid |-> gid]

NoteRec(text, type) == [text |-> text, type |-> type]

\* The events of the database.  E1..E4 are family events covering the four
\* branches of dump_parent_event: date and place only, description and date,
\* description only, nothing at all.
Events ==
    [ E1 |-> EventRec(MARRIAGE, S("1900-01-01"), S("Paris"), Empty, <<>>),
      E2 |-> EventRec(MARRIAGE, S("1905-05-05"), Empty, S("second wedding"),
                      <<Attr("Witness", S("Ann"))>>),
      E3 |-> EventRec(DIVORCE, Empty, Empty, S("by decree"), <<>>),
      E4 |-> EventRec(MARRIAGE, Empty, Empty, Empty, <<Attr("Number", S("7"))>>),
      B1 |-> EventRec(BIRTH, S("1870-02-02"), S("Lyon"), Empty, <<>>),
      D1 |-> EventRec(DEATH, S("1940-03-03"), Empty, S("old age"), <<>>),
      O1 |-> EventRec(OCCUPATION, Empty, Empty, S("baker"), <<>>),
      B3 |-> EventRec(BIRTH, S("1901-04-04"), Empty, Empty, <<>>),
      D4 |-> EventRec(DEATH, S("1903-06-06"), S("Nice"), Empty, <<>>),
      B5 |-> EventRec(BIRTH, S("1902-07-07"), Empty, Empty, <<>>) ]

Notes ==
    [ N1 |-> NoteRec(S("a note"), GENERAL),
      N2 |-> NoteRec(S("<b>html</b>"), HTML_CODE) ]

\* The event references a family event list is drawn from: two qualifying
\* marriages, a marriage with a non-qualifying role, and a non-marriage event.
FamilyEventRefs ==
    { EventRef("E1", FAMILY), EventRef("E2", PRIMARY),
      EventRef("E4", WITNESS_ROLE), EventRef("E3", FAMILY) }

\* The persons a child list is drawn from, one of each gender.
ChildPool == {"I3", "I4", "I7"}

RECURSIVE SeqsUpTo(_, _)
SeqsUpTo(set, n) ==
    IF n = 0 THEN { <<>> }
    ELSE LET shorter == SeqsUpTo(set, n - 1)
         IN shorter \cup { Append(q, x) : q \in { r \in shorter : Len(r) = n - 1 }, x \in set }

Range(q) == { q[i] : i \in 1..Len(q) }

Injective(q) == Cardinality(Range(q)) = Len(q)

EventLists == SeqsUpTo(FamilyEventRefs, MaxEvents)

ChildLists == { q \in SeqsUpTo(ChildPool, MaxChildren) : Injective(q) }

Topologies == {"leaf", "down", "chain", "self", "cycle", "two", "lone"}

----------------------------------------------------------------------------
(* Databases *)

AllFamilyHandles == <<"F1", "F2", "F3">>

\* The family table of a database: F1 is the root family with the chosen
\* parents, children and events; the topology says which families its
\* children head.
\*   leaf:  no child heads a family
\*   down:  I3 heads F2 (child I6)
\*   chain: down, and I6 is the mother of F3
\*   self:  down, and I3 is also the father of F1, the family I3 is a child of
\*   cycle: down, but F2's child is I1, the father of F1
\*   two:   I3 heads F2 and F3 (F3 without a spouse, with a marriage event)
\*   lone:  I3 heads F2 and F3 (F3 without a spouse and without events)
FamilyTable(kids, evs, topo, father, mother) ==
    LET f1 == FamilyRec(CASE topo = "self" -> "I3"
                          [] topo = "cycle" -> "I1"
                          [] OTHER -> father,
                        mother, kids, evs,
                        <<Attr("Number of Children", S("2"))>>, <<"N1">>, S("F0001"))
        f2 == FamilyRec("I3", "I5", IF topo = "cycle" THEN <<"I1">> ELSE <<"I6">>,
                        evs, <<>>, <<>>, S("F0002"))
        f3 == IF topo = "chain"
              THEN FamilyRec("I8", "I6", <<>>, <<>>, <<>>, <<"N2">>, Empty)
              ELSE FamilyRec("I3", NoHandle, <<>>,
                             IF topo = "lone" THEN <<>> ELSE <<EventRef("E4", WITNESS_ROLE)>>,
                             <<>>, <<>>, S("F0003"))
        hs == CASE topo = "leaf" -> {"F1"}
                [] topo \in {"chain", "two", "lone"} -> {"F1", "F2", "F3"}
                [] OTHER -> {"F1", "F2"}
    IN [h \in hs |-> CASE h = "F1" -> f1 [] h = "F2" -> f2 [] OTHER -> f3]

\* person.get_family_handle_list(): the families the person is a parent of.
FamiliesOf(fams, p) ==
    SelectSeq(AllFamilyHandles,
              LAMBDA h : h \in DOMAIN fams /\ (fams[h].father = p \/ fams[h].mother = p))

\* person.get_main_parents_family_handle(): the family the person is a child of.
ParentsOf(fams, p) ==
    LET hs == SelectSeq(AllFamilyHandles,
                        LAMBDA h : h \in DOMAIN fams /\ p \in Range(fams[h].children))
    IN IF hs = <<>> THEN NoHandle ELSE hs[1]

PersonTable(fams) ==
    LET P(h, name, gid, gender, evrefs, birth, death, addrs, notes, attrs, altnames) ==
            PersonRec(name, gid, gender, evrefs, birth, death, ParentsOf(fams, h),
                      addrs, notes, attrs, altnames)
            @@ [families |-> FamiliesOf(fams, h)]
        prim(e) == EventRef(e, PRIMARY)
    IN [ I1 |-> P("I1", S("John Smith"), S("I0001"), MALE,
                  <<prim("B1"), prim("D1"), prim("O1")>>, 1, 2,
                  <<[date |-> S("1890"), location |-> S("Rue A")]>>, <<"N1", "N2">>,
                  <<Attr("Nickname", S("Jo"))>>,
                  <<[type |-> "Also Known As", name |-> S("Jack Smith")]>>),
         I2 |-> P("I2", S("Mary Jones"), Empty, FEMALE, <<>>, 0, 0,
                  <<>>, <<>>, <<>>, <<>>),
         I3 |-> P("I3", S("Tom Smith"), S("I0003"), MALE, <<prim("B3")>>, 1, 0,
                  <<>>, <<>>, <<>>, <<>>),
         I4 |-> P("I4", S("Ann Smith"), S("I0004"), FEMALE, <<prim("D4")>>, 0, 1,
                  <<>>, <<>>, <<>>, <<>>),
         I5 |-> P("I5", S("Eve Brown"), S("I0005"), FEMALE, <<prim("B5")>>, 1, 0,
                  <<>>, <<>>, <<>>, <<>>),
         I6 |-> P("I6", S("Sue Smith"), S("I0006"), FEMALE, <<>>, 0, 0,
                  <<>>, <<>>, <<>>, <<>>),
         I7 |-> P("I7", S("Pat Smith"), S("I0007"), UNKNOWN, <<>>, 0, 0,
                  <<>>, <<>>, <<>>, <<>>),
         I8 |-> P("I8", S("Bob Gray"), S("I0008"), MALE, <<>>, 0, 0,
                  <<>>, <<>>, <<>>, <<>>) ]

Restrict(f, gone) == [h \in DOMAIN f \ gone |-> f[h]]

\* A database; the handles in `gone` are referenced but have no record.
MkDB(kids, evs, topo, father, mother, gone) ==
    LET fams == FamilyTable(kids, evs, topo, father, mother)
    IN [ person |-> Restrict(PersonTable(fams), gone),
         family |-> Restrict(fams, gone),
         event |-> Restrict(Events, gone),
         note |-> Restrict(Notes, gone) ]

\* db.get_family_handles(sort_handles=True)
get_family_handles == SelectSeq(AllFamilyHandles, LAMBDA h : h \in DOMAIN db.family)

----------------------------------------------------------------------------
(* Lookups *)

HasPerson(h) == h \in DOMAIN db.person
HasFamily(h) == h \in DOMAIN db.family
HasEvent(h) == h \in DOMAIN db.event
HasNote(h) == h \in DOMAIN db.note

\* The record of a handle; when the lookup fails the caller has raised and the
\* value is not used.
PersonOf(h) == IF HasPerson(h) THEN db.person[h] ELSE EmptyPerson @@ [families |-> <<>>]
FamilyOf(h) ==
    IF HasFamily(h) THEN db.family[h]
    ELSE FamilyRec(NoHandle, NoHandle, <<>>, <<>>, <<>>, <<>>, Empty)
EventOf(h) == IF HasEvent(h) THEN db.event[h] ELSE EventRec("", Empty, Empty, Empty, <<>>)
NoteOf(h) == IF HasNote(h) THEN db.note[h] ELSE NoteRec(Empty, GENERAL)

\* person.get_birth_ref(), person.get_death_ref(): <<>> is None.
get_birth_ref(person) == IF person.birth = 0 THEN <<>> ELSE <<person.evrefs[person.birth]>>
get_death_ref(person) == IF person.death = 0 THEN <<>> ELSE <<person.evrefs[person.death]>>

RECURSIVE ThenAll(_)
ThenAll(results) ==
    IF results = <<>> THEN Done(<<>>) ELSE Then(results[1], ThenAll(Tail(results)))

\* The results of a loop body over a list, run in list order until one raises.
ForEach(list, Body(_)) == ThenAll([i \in 1..Len(list) |-> Body(list[i])])

----------------------------------------------------------------------------
(* Parent blocks *)

RECURSIVE AppendAttrs(_, _)
AppendAttrs(descr, attrs) ==
    IF attrs = <<>> THEN descr
    ELSE AppendAttrs((IF descr # Empty THEN descr \o S("; ") ELSE descr)
                        \o ColonJoin(S(attrs[1].type), attrs[1].value),
                     Tail(attrs))

\* Mutant: date and place are shown only when one of them is there.
dump_parent_event_NoPlaceholder(name, event) ==
    LET date == IF event # <<>> THEN event[1].date ELSE Empty
        place == IF event # <<>> THEN event[1].place ELSE Empty
        descr == IF event = <<>> THEN Empty
                 ELSE IF opts.includeAttrs THEN AppendAttrs(event[1].descr, event[1].attrs)
                 ELSE event[1].descr
    IN <<StartRow>> \o TextCell("FGR-TextContents", 1, "FGR-Normal", name)
       \o (IF descr # Empty
           THEN TextCell("FGR-TextContentsEnd", 2, "FGR-Normal", descr) \o <<EndRow>>
                \o (IF date # Empty \/ place # Empty
                    THEN <<StartRow>> \o BlankCell("FGR-TextContents", "FGR-Normal")
                    ELSE <<>>)
           ELSE <<>>)
       \o (IF date # Empty \/ place # Empty
           THEN TextCell("FGR-TextContents", 1, "FGR-Normal", date)
                \o TextCell("FGR-TextContentsEnd", 1, "FGR-Normal", place)
                \o <<EndRow>>
           ELSE <<>>)

\* event: <<>> (None) or <<the event record>>
dump_parent_event(name, event) ==
    LET date == IF event # <<>> THEN event[1].date ELSE Empty
        place == IF event # <<>> THEN event[1].place ELSE Empty
        descr == IF event = <<>> THEN Empty
                 ELSE IF opts.includeAttrs THEN AppendAttrs(event[1].descr, event[1].attrs)
                 ELSE event[1].descr
    IN <<StartRow>> \o TextCell("FGR-TextContents", 1, "FGR-Normal", name)
       \o (IF descr # Empty
           THEN TextCell("FGR-TextContentsEnd", 2, "FGR-Normal", descr) \o <<EndRow>>
                \o (IF date # Empty \/ place # Empty
                    THEN <<StartRow>> \o BlankCell("FGR-TextContents", "FGR-Normal")
                    ELSE <<>>)
           ELSE <<>>)
       \o (IF (date # Empty \/ place # Empty) \/ descr = Empty
           THEN TextCell("FGR-TextContents", 1, "FGR-Normal", date)
                \o TextCell("FGR-TextContentsEnd", 1, "FGR-Normal", place)
                \o <<EndRow>>
           ELSE <<>>)

dump_parent_line(name, text) ==
    <<StartRow>> \o TextCell("FGR-TextContents", 1, "FGR-Normal", name)
    \o TextCell("FGR-TextContentsEnd", 2, "FGR-Normal", text) \o <<EndRow>>

dump_parent_noteline(name, note) ==
    <<StartRow>> \o TextCell("FGR-TextContents", 1, "FGR-Normal", name)
    \o << StartCell("FGR-TextContentsEnd", 2), WriteStyledNote(note.text, "FGR-Note"),
          EndCell, EndRow >>

\* The " (birth - death)" annotation of a relative: [ok, text].
RelativeDates(person) ==
    LET birth_ref == get_birth_ref(person)
        death_ref == get_death_ref(person)
        birthOk == birth_ref = <<>> \/ HasEvent(birth_ref[1].ref)
        deathOk == death_ref = <<>> \/ HasEvent(death_ref[1].ref)
        birth == IF birth_ref # <<>> THEN EventOf(birth_ref[1].ref).date ELSE S("  ")
        death == IF death_ref # <<>> THEN EventOf(death_ref[1].ref).date ELSE S("  ")
    IN [ ok |-> birthOk /\ deathOk,
         text |-> IF birth_ref # <<>> \/ death_ref # <<>>
                  THEN ParenRange(birth, death) ELSE Empty ]

\* The name dump_parent_parents shows for the parent's father or mother: [ok, text].
ParentsName(handle) ==
    IF handle = NoHandle THEN [ok |-> TRUE, text |-> Empty]
    ELSE IF ~HasPerson(handle) THEN [ok |-> FALSE, text |-> Empty]
    ELSE LET p == PersonOf(handle)
             withId == p.name \o (IF opts.gramps_ids /\ p.gid # Empty
                                  THEN Paren(p.gid) ELSE Empty)
             dates == IF opts.incRelDates THEN RelativeDates(p)
                      ELSE [ok |-> TRUE, text |-> Empty]
         IN [ok |-> dates.ok, text |-> withId \o dates.text]

dump_parent_parents(person) ==
    LET family_handle == person.parents
        famOk == family_handle = NoHandle \/ HasFamily(family_handle)
        family == FamilyOf(family_handle)
        father == IF family_handle # NoHandle THEN ParentsName(family.father)
                  ELSE [ok |-> TRUE, text |-> Empty]
        mother == IF family_handle # NoHandle THEN ParentsName(family.mother)
                  ELSE [ok |-> TRUE, text |-> Empty]
        Line(label, name) ==
            IF name # Empty
            THEN <<StartRow>> \o TextCell("FGR-TextContents", 1, "FGR-Normal", label)
                 \o TextCell("FGR-TextContentsEnd", 2, "FGR-Normal", name) \o <<EndRow>>
            ELSE IF opts.missingInfo THEN dump_parent_line(label, Empty)
            ELSE <<>>
    IN IF ~famOk \/ ~father.ok \/ ~mother.ok THEN Raised(<<>>)
       ELSE Done(Line(S("Father"), father.text) \o Line(S("Mother"), mother.text))

\* The birth or death row of a parent: the lookup, then the row.
ParentVital(label, ref) ==
    IF ref # <<>> /\ ~HasEvent(ref[1].ref) THEN Raised(<<>>)
    ELSE LET event == IF ref # <<>> THEN <<EventOf(ref[1].ref)>> ELSE <<>>
         IN Done(IF event # <<>> \/ opts.missingInfo
                 THEN dump_parent_event(label, event) ELSE <<>>)

\* Mutant: an absent parent is never skipped.
SkipsParent_Never(person_handle) == FALSE

\* The early return of dump_parent.
SkipsParent(person_handle) == person_handle = NoHandle /\ ~opts.missingInfo

dump_parent(title, person_handle) ==
    IF SkipsParent(person_handle) THEN Done(<<>>)
    ELSE IF person_handle # NoHandle /\ ~HasPerson(person_handle) THEN Raised(<<>>)
    ELSE
    LET person == IF person_handle = NoHandle THEN EmptyPerson ELSE PersonOf(person_handle)
        name == person.name
        head ==
            << StartTable(title, "FGR-ParentTable"), StartRow, StartCell("FGR-ParentHead", 3),
               StartParagraph("FGR-ParentName"), WriteText(ColonJoin(title, name)) >>
            \o (IF opts.gramps_ids /\ person.gid # Empty
                THEN <<WriteText(Paren(person.gid))>> ELSE <<>>)
            \o <<EndParagraph, EndCell, EndRow>>
        others == SelectSeq([i \in 1..Len(person.evrefs) |-> i],
                            LAMBDA i : /\ person.evrefs[i].role = PRIMARY
                                       /\ i # person.birth /\ i # person.death)
        events ==
            IF opts.incParEvents
            THEN ForEach(others,
                         LAMBDA i : IF ~HasEvent(person.evrefs[i].ref) THEN Raised(<<>>)
                                    ELSE LET event == EventOf(person.evrefs[i].ref)
                                         IN Done(dump_parent_event(S(event.type), <<event>>)))
            ELSE Done(<<>>)
        addresses ==
            IF opts.incParAddr
            THEN ForEach(person.addrs,
                         LAMBDA addr :
                            Done(<<StartRow>>
                                 \o TextCell("FGR-TextContents", 1, "FGR-Normal", S("Address"))
                                 \o TextCell("FGR-TextContents", 1, "FGR-Normal", addr.date)
                                 \o TextCell("FGR-TextContentsEnd", 1, "FGR-Normal", addr.location)
                                 \o <<EndRow>>))
            ELSE Done(<<>>)
        notes ==
            IF opts.incParNotes
            THEN ForEach(person.notes,
                         LAMBDA notehandle :
                            IF ~HasNote(notehandle) THEN Raised(<<>>)
                            ELSE Done(dump_parent_noteline(S("Note"), NoteOf(notehandle))))
            ELSE Done(<<>>)
        attributes ==
            IF opts.includeAttrs
            THEN ForEach(person.attrs,
                         LAMBDA attr : Done(dump_parent_line(S(attr.type), attr.value)))
            ELSE Done(<<>>)
        names ==
            IF opts.incParNames
            THEN ForEach(person.altnames,
                         LAMBDA alt_name : Done(dump_parent_line(S(alt_name.type), alt_name.name)))
            ELSE Done(<<>>)
    IN ThenAll(<< Done(head),
                  ParentVital(S("Birth"), get_birth_ref(person)),
                  ParentVital(S("Death"), get_death_ref(person)),
                  dump_parent_parents(person),
                  events, addresses, notes, attributes, names,
                  Done(<<EndTable>>) >>)

----------------------------------------------------------------------------
(* Marriage block *)

\* Mutant: the role of the reference is not tested.
IsParentMarriage_AnyRole(event, event_ref) == event.type = MARRIAGE

\* The test of dump_marriage for "the" marriage event of the family.
IsParentMarriage(event, event_ref) ==
    event.type = MARRIAGE /\ (event_ref.role = FAMILY \/ event_ref.role = PRIMARY)

\* The first loop of dump_marriage from position i on: [ok, at], at the
\* position of the event taken as mrg (0: none); ok is FALSE when a lookup
\* made before the loop ended failed.
RECURSIVE FindParentMarriage(_, _)
FindParentMarriage(family_list, i) ==
    IF i > Len(family_list) THEN [ok |-> TRUE, at |-> 0]
    ELSE IF ~HasEvent(family_list[i].ref) THEN [ok |-> FALSE, at |-> 0]
    ELSE IF IsParentMarriage(EventOf(family_list[i].ref), family_list[i])
         THEN [ok |-> TRUE, at |-> i]
    ELSE FindParentMarriage(family_list, i + 1)

\* Mutant: every event of the list is listed below the marriage row.
IsOtherEvent_All(event) == TRUE

\* The test of the second loop of dump_marriage for an event listed below
\* the marriage row.
IsOtherEvent(event) == event.type # MARRIAGE

MarriageHeader(family) ==
    LET header == S("Marriage") \o (IF opts.gramps_ids THEN Paren(family.gid) ELSE Empty)
    IN << StartTable(S("MarriageInfo"), "FGR-ParentTable"), StartRow,
          StartCell("FGR-ParentHead", 3), StartParagraph("FGR-ParentName"),
          WriteText(header \o S(":")), EndParagraph, EndCell, EndRow >>

\* Mutant: the block is emitted for a non-empty event list only.
MarriageShown_EventsOnly(family_list) == Len(family_list) > 0

\* The condition under which dump_marriage emits the block.
MarriageShown(family_list) ==
    Len(family_list) > 0 \/ opts.missingInfo \/ opts.includeAttrs

dump_marriage(family) ==
    LET family_list == family.evrefs
        found == FindParentMarriage(family_list, 1)
        mrg == IF found.at = 0 THEN <<>> ELSE <<EventOf(family_list[found.at].ref)>>
        others ==
            ForEach(family_list,
                    LAMBDA event_ref :
                        IF ~HasEvent(event_ref.ref) THEN Raised(<<>>)
                        ELSE LET event == EventOf(event_ref.ref)
                             IN Done(IF IsOtherEvent(event)
                                     THEN dump_parent_event(S(event.type), <<event>>)
                                     ELSE <<>>))
        attributes ==
            IF opts.includeAttrs
            THEN ForEach(family.attrs,
                         LAMBDA attr : Done(dump_parent_line(S(attr.type), attr.value)))
            ELSE Done(<<>>)
        notes ==
            IF opts.incFamNotes
            THEN ForEach(family.notes,
                         LAMBDA notehandle :
                            IF ~HasNote(notehandle) THEN Raised(<<>>)
                            ELSE Done(dump_parent_noteline(S("Note"), NoteOf(notehandle))))
            ELSE Done(<<>>)
    IN IF ~found.ok THEN Raised(<<>>)
       ELSE IF ~MarriageShown(family_list) THEN Done(<<>>)
       ELSE ThenAll(<< Done(MarriageHeader(family)),
                       Done(dump_parent_event(S("Marriage"), mrg)),
                       others, attributes, notes,
                       Done(<<EndTable>>) >>)

----------------------------------------------------------------------------
(* Children *)

\* event: <<>> (None) or <<the event record>>.  An event without a place has
\* an empty place text.
dump_child_event(text, name, event) ==
    LET date == IF event # <<>> THEN event[1].date ELSE Empty
        place == IF event # <<>> THEN event[1].place ELSE Empty
    IN <<StartRow>> \o BlankCell(text, "FGR-Normal")
       \o TextCell("FGR-TextContents", 1, "FGR-Normal", name)
       \o TextCell("FGR-TextContents", 1, "FGR-Normal", date)
       \o TextCell("FGR-TextContentsEnd", 1, "FGR-Normal", place)
       \o <<EndRow>>

\* The test of dump_child for the marriage event of a child's family.
IsChildMarriage(event, event_ref) == event.type = MARRIAGE

\* The marriage search of dump_child from position i on: [ok, at].
RECURSIVE FindChildMarriage(_, _)
FindChildMarriage(event_ref_list, i) ==
    IF i > Len(event_ref_list) THEN [ok |-> TRUE, at |-> 0]
    ELSE IF ~HasEvent(event_ref_list[i].ref) THEN [ok |-> FALSE, at |-> 0]
    ELSE IF IsChildMarriage(EventOf(event_ref_list[i].ref), event_ref_list[i])
         THEN [ok |-> TRUE, at |-> i]
    ELSE FindChildMarriage(event_ref_list, i + 1)

\* Mutant: the spouse is always the father of the family.
SpouseId_Father(person_handle, family) == family.father

\* The spouse of the person in a family.
SpouseId(person_handle, family) ==
    IF person_handle = family.father THEN family.mother ELSE family.father

\* Mutant: the label counts from 0.
ChildLabel_ZeroBased(index, gender) ==
    LET index_str == FormatInt(index - 1)
    IN IF gender = MALE THEN index_str \o S("M")
       ELSE IF gender = FEMALE THEN index_str \o S("F")
       ELSE FormatInt(index - 1) \o S("U")

\* The text of the first cell of a child's name row.
ChildLabel(index, gender) ==
    LET index_str == FormatInt(index)
    IN IF gender = MALE THEN index_str \o S("M")
       ELSE IF gender = FEMALE THEN index_str \o S("F")
       ELSE FormatInt(index) \o S("U")

\* One pass of the per-family loop of dump_child; index is the loop's own
\* counter, families the length of the child's family list.
ChildFamilyRows(person_handle, family_handle, index, families) ==
    IF ~HasFamily(family_handle) THEN Raised(<<>>)
    ELSE
    LET family == FamilyOf(family_handle)
        found == FindChildMarriage(family.evrefs, 1)
        mrg == IF found.at = 0 THEN <<>> ELSE <<EventOf(family.evrefs[found.at].ref)>>
        spouse_id == SpouseId(person_handle, family)
        open ==
            <<StartRow>>
            \o BlankCell(IF mrg # <<>> \/ index # families
                         THEN "FGR-TextChild1" ELSE "FGR-TextChild2", "FGR-Normal")
            \o TextCell("FGR-TextContents", 1, "FGR-Normal", S("Spouse"))
            \o <<StartCell("FGR-TextContentsEnd", 2), StartParagraph("FGR-Normal")>>
        spouse == PersonOf(spouse_id)
        dates == IF opts.incRelDates THEN RelativeDates(spouse)
                 ELSE [ok |-> TRUE, text |-> Empty]
        spouse_name ==
            spouse.name
            \o (IF opts.gramps_ids /\ spouse.gid # Empty THEN Paren(spouse.gid) ELSE Empty)
            \o dates.text
            \o (IF opts.gramps_ids /\ family.gid # Empty THEN Paren(family.gid) ELSE Empty)
        spouseRow ==
            IF spouse_id = NoHandle THEN Done(<<>>)
            ELSE IF ~HasPerson(spouse_id) \/ ~dates.ok THEN Raised(open)
            ELSE Done(open \o <<WriteText(spouse_name), EndParagraph, EndCell, EndRow>>)
        marriageRow ==
            IF mrg = <<>> THEN <<>>
            ELSE dump_child_event(IF index = families
                                  THEN "FGR-TextChild2" ELSE "FGR-TextChild1",
                                  S("Marriage"), mrg)
    IN IF ~found.ok THEN Raised(<<>>)
       ELSE Then(spouseRow, Done(marriageRow))

dump_child(index, person_handle) ==
    IF ~HasPerson(person_handle) THEN Raised(<<>>)
    ELSE
    LET person == PersonOf(person_handle)
        families == Len(person.families)
        birth_ref == get_birth_ref(person)
        death_ref == get_death_ref(person)
        birth == IF birth_ref # <<>> THEN <<EventOf(birth_ref[1].ref)>> ELSE <<>>
        death == IF death_ref # <<>> THEN <<EventOf(death_ref[1].ref)>> ELSE <<>>
        vitalsOk == /\ birth_ref = <<>> \/ HasEvent(birth_ref[1].ref)
                    /\ death_ref = <<>> \/ HasEvent(death_ref[1].ref)
        countOk == ~opts.incChiMar
                   \/ \A i \in 1..families : HasFamily(person.families[i])
        spouse_count ==
            IF opts.incChiMar
            THEN Cardinality({ i \in 1..families :
                                 SpouseId(person_handle, FamilyOf(person.families[i]))
                                     # NoHandle })
            ELSE 0
        nameRow ==
            << StartRow,
               StartCell(IF spouse_count # 0 \/ opts.missingInfo
                            \/ death # <<>> \/ birth # <<>>
                         THEN "FGR-TextChild1" ELSE "FGR-TextChild2", 1),
               StartParagraph("FGR-ChildText"),
               WriteText(ChildLabel(index, person.gender)),
               EndParagraph, EndCell,
               StartCell("FGR-ChildName", 3), StartParagraph("FGR-ChildText"),
               WriteText(person.name) >>
            \o (IF opts.gramps_ids THEN <<WriteText(Paren(person.gid))>> ELSE <<>>)
            \o <<EndParagraph, EndCell, EndRow>>
        birthRow ==
            IF opts.missingInfo \/ birth # <<>>
            THEN dump_child_event(IF spouse_count # 0 \/ opts.missingInfo \/ death # <<>>
                                  THEN "FGR-TextChild1" ELSE "FGR-TextChild2",
                                  S("Birth"), birth)
            ELSE <<>>
        deathRow ==
            IF opts.missingInfo \/ death # <<>>
            THEN dump_child_event(IF spouse_count = 0 \/ ~opts.incChiMar
                                  THEN "FGR-TextChild2" ELSE "FGR-TextChild1",
                                  S("Death"), death)
            ELSE <<>>
        marriages ==
            IF opts.incChiMar
            THEN ForEach([i \in 1..families |-> i],
                         LAMBDA i : ChildFamilyRows(person_handle, person.families[i],
                                                    i, families))
            ELSE Done(<<>>)
    IN IF ~vitalsOk \/ ~countOk THEN Raised(<<>>)
       ELSE Then(Done(nameRow \o birthRow \o deathRow), marriages)

----------------------------------------------------------------------------
(* FamilyGroupOptions: the options menu *)

\* The values of the filter option: the filters of the list; 0, 2 and 3 rely
\* on the center family.
FilterValues == {0, 1, 2, 3, 4}

\* The entry of the history for a notification of the filter.
Change(m, v) ==
    [filter |-> v, recursive |-> m.recursive # <<>> /\ m.recursive[1].value]

\* An option of the menu: its value and whether it is available.
BooleanOption(value) == [value |-> value, available |-> TRUE]

\* add_menu_options up to the filter option: the filter has the value 0 and
\* its handler is connected; self.__recursive is None (<<>>).  changes is the
\* history of the filter's notifications: the value set and the value of the
\* recursive option the handler found.
MenuCreated ==
    [filter_value |-> 0, fid_available |-> TRUE, recursive |-> <<>>, changes |-> <<>>]

\* The menu add_menu_options leaves.
MenuReady == [MenuCreated EXCEPT !.recursive = <<BooleanOption(FALSE)>>]

\* Mutant: the recursive option is made unavailable but keeps its value.
filter_changed_KeepsValue(m) ==
    LET filter_value == m.filter_value
    IN [m EXCEPT !.fid_available = filter_value \in {0, 2, 3},
                 !.recursive =
                    IF m.recursive # <<>> /\ filter_value = 0
                    THEN <<[m.recursive[1] EXCEPT !.available = TRUE]>>
                    ELSE IF m.recursive # <<>>
                    THEN <<[m.recursive[1] EXCEPT !.available = FALSE]>>
                    ELSE m.recursive]

\* __filter_changed: the handler of the filter's 'value-changed'.
filter_changed(m) ==
    LET filter_value == m.filter_value
    IN [m EXCEPT !.fid_available = filter_value \in {0, 2, 3},
                 !.recursive =
                    IF m.recursive # <<>> /\ filter_value = 0
                    THEN <<[m.recursive[1] EXCEPT !.available = TRUE]>>
                    ELSE IF m.recursive # <<>>
                    THEN <<[value |-> FALSE, available |-> FALSE]>>
                    ELSE m.recursive]

----------------------------------------------------------------------------
(* The report: dump_family and write_report *)

\* The title of a family section.
FamilyTitle(generation) ==
    IF opts.recursive /\ opts.generations
    THEN S("Family Group Report - Generation ") \o FormatInt(generation)
    ELSE S("Family Group Report")

TitleParagraph(title) ==
    <<StartParagraph("FGR-Title"), WriteText(title), EndParagraph>>

BlankParagraph == <<StartParagraph("FGR-blank"), EndParagraph>>

\* A frame of dump_family: its arguments, its position, the children table's
\* index, and the position of the recursion loops (child ci, family fj; fj = 0:
\* the child of position ci is not looked up yet).
Frame(family_handle, generation) ==
    [family_handle |-> family_handle, generation |-> generation, at |-> "title",
     index |-> 1, ci |-> 1, fj |-> 0]

\* Mutant: the generation is passed on unchanged.
NextGeneration_Same(generation) == generation

\* The generation dump_family passes to the call it makes for a child's family.
NextGeneration(generation) == generation + 1

\* Mutant: every family of the child is descended into.
IsOtherFamily_Any(child_family_handle, family_handle) == TRUE

\* The test of the recursion loop for a family of a child.
IsOtherFamily(child_family_handle, family_handle) == child_family_handle # family_handle

Top == stack[Len(stack)]
InFamily(at) == pc = "in_family" /\ stack # <<>> /\ Top.at = at
SetTop(frame) == [stack EXCEPT ![Len(stack)] = frame]
TopFamily == FamilyOf(Top.family_handle)

\* Mutant: a failed lookup is swallowed and the run goes on.
Emit_Swallows(result, after, next) ==
    /\ doc' = doc \o result.calls \o after
    /\ stack' = SetTop([Top EXCEPT !.at = next])
    /\ pc' = pc

\* The effect of a routine's result on the document and on the run: the calls
\* are appended, then either the run goes on with the frame at `next` after
\* the calls of `after`, or the exception ends the run.
Emit(result, after, next) ==
    /\ doc' = doc \o result.calls \o (IF result.ok THEN after ELSE <<>>)
    /\ IF result.ok
       THEN /\ stack' = SetTop([Top EXCEPT !.at = next])
            /\ pc' = pc
       ELSE /\ stack' = stack
            /\ pc' = "error"

\* write_report: the family list.
ApplyFilter ==
    /\ pc = "start"
    /\ fam_list' = IF filter = <<>> THEN get_family_handles
                   ELSE SelectSeq(get_family_handles, LAMBDA h : h \in filter[1])
    /\ pc' = IF fam_list' # <<>> THEN "loop" ELSE "empty"
    /\ UNCHANGED <<menu, db, opts, filter, fam_pos, stack, doc, ticks, callLog>>

\* Mutant: the empty report uses the title of a family section.
EmptyReport_Generation ==
    /\ pc = "empty"
    /\ doc' = doc \o TitleParagraph(FamilyTitle(1))
    /\ pc' = "done"
    /\ UNCHANGED <<menu, db, opts, filter, fam_list, fam_pos, stack, ticks, callLog>>

\* write_report: the title-only page of an empty family list.
EmptyReport ==
    /\ pc = "empty"
    /\ doc' = doc \o TitleParagraph(S("Family Group Report"))
    /\ pc' = "done"
    /\ UNCHANGED <<menu, db, opts, filter, fam_list, fam_pos, stack, ticks, callLog>>

\* write_report: the loop calls dump_family(family_handle, 1).
CallDumpFamily ==
    /\ pc = "loop"
    /\ fam_pos <= Len(fam_list)
    /\ stack' = <<Frame(fam_list[fam_pos], 1)>>
    /\ callLog' = Append(callLog, [family_handle |-> fam_list[fam_pos], generation |-> 1,
                                   depth |-> 1, caller |-> NoHandle, at |-> Len(doc)])
    /\ pc' = "in_family"
    /\ UNCHANGED <<menu, db, opts, filter, fam_list, fam_pos, doc, ticks>>

\* dump_family: the title paragraph and the family lookup.
DumpTitle ==
    /\ InFamily("title")
    /\ Emit([calls |-> TitleParagraph(FamilyTitle(Top.generation)),
             ok |-> HasFamily(Top.family_handle)], <<>>, "husband")
    /\ UNCHANGED <<menu, db, opts, filter, fam_list, fam_pos, ticks, callLog>>

\* Mutant: the husband step renders the mother under the title 'Wife'.
DumpHusband_Wife ==
    /\ InFamily("husband")
    /\ Emit(dump_parent(S("Wife"), TopFamily.mother), BlankParagraph, "marriage")
    /\ UNCHANGED <<menu, db, opts, filter, fam_list, fam_pos, ticks, callLog>>

DumpHusband ==
    /\ InFamily("husband")
    /\ Emit(dump_parent(S("Husband"), TopFamily.father), BlankParagraph, "marriage")
    /\ UNCHANGED <<menu, db, opts, filter, fam_list, fam_pos, ticks, callLog>>

DumpMarriage ==
    /\ InFamily("marriage")
    /\ IF opts.incParMar
       THEN Emit(dump_marriage(TopFamily), BlankParagraph, "wife")
       ELSE Emit(Done(<<>>), <<>>, "wife")
    /\ UNCHANGED <<menu, db, opts, filter, fam_list, fam_pos, ticks, callLog>>

DumpWife ==
    /\ InFamily("wife")
    /\ Emit(dump_parent(S("Wife"), TopFamily.mother), <<>>, "children")
    /\ UNCHANGED <<menu, db, opts, filter, fam_list, fam_pos, ticks, callLog>>

\* dump_family: the head of the children table, or nothing for no children.
ChildrenHeader ==
    BlankParagraph
    \o << StartTable(S("FGR-Children"), "FGR-ChildTable"), StartRow,
          StartCell("FGR-ParentHead", 4), StartParagraph("FGR-ParentName"),
          WriteText(S("Children")), EndParagraph, EndCell, EndRow >>

\* Mutant: the table is started for an empty child list too.
ChildrenShown_Always(length) == TRUE

\* The test of dump_family for emitting the children table.
ChildrenShown(length) == length > 0

StartChildren ==
    /\ InFamily("children")
    /\ IF ChildrenShown(Len(TopFamily.children))
       THEN Emit(Done(ChildrenHeader), <<>>, "child")
       ELSE Emit(Done(<<>>), <<>>, "recurse")
    /\ UNCHANGED <<menu, db, opts, filter, fam_list, fam_pos, ticks, callLog>>

\* dump_family: one pass of the children loop.
DumpChild ==
    /\ InFamily("child")
    /\ Top.index <= Len(TopFamily.children)
    /\ LET result == dump_child(Top.index, TopFamily.children[Top.index])
       IN /\ doc' = doc \o result.calls
          /\ IF result.ok
             THEN /\ stack' = SetTop([Top EXCEPT !.index = Top.index + 1])
                  /\ pc' = pc
             ELSE /\ stack' = stack
                  /\ pc' = "error"
    /\ UNCHANGED <<menu, db, opts, filter, fam_list, fam_pos, ticks, callLog>>

EndChildren ==
    /\ InFamily("child")
    /\ Top.index > Len(TopFamily.children)
    /\ Emit(Done(<<EndTable>>), <<>>, "recurse")
    /\ UNCHANGED <<menu, db, opts, filter, fam_list, fam_pos, ticks, callLog>>

\* The recursion loops of dump_family.
RecurseChild ==
    /\ InFamily("recurse")
    /\ opts.recursive
    /\ Top.ci <= Len(TopFamily.children)
    /\ Top.fj = 0
    /\ IF HasPerson(TopFamily.children[Top.ci])
       THEN stack' = SetTop([Top EXCEPT !.fj = 1]) /\ pc' = pc
       ELSE stack' = stack /\ pc' = "error"
    /\ UNCHANGED <<menu, db, opts, filter, fam_list, fam_pos, doc, ticks, callLog>>

\* Mutant: no family of a child is descended into.
RecurseFamilies_None == <<>>

\* child.get_family_handle_list() of the recursion loop's child.
RecurseFamilies == PersonOf(TopFamily.children[Top.ci]).families

\* Mutant: the recursive call without its page break.
Descend_NoPageBreak ==
    /\ InFamily("recurse")
    /\ opts.recursive
    /\ Top.ci <= Len(TopFamily.children)
    /\ Top.fj >= 1 /\ Top.fj <= Len(RecurseFamilies)
    /\ IsOtherFamily(RecurseFamilies[Top.fj], Top.family_handle)
    /\ Len(stack) < MaxDepth
    /\ stack' = Append(SetTop([Top EXCEPT !.fj = Top.fj + 1]),
                       Frame(RecurseFamilies[Top.fj], NextGeneration(Top.generation)))
    /\ callLog' = Append(callLog, [family_handle |-> RecurseFamilies[Top.fj],
                                   generation |-> NextGeneration(Top.generation),
                                   depth |-> Len(stack) + 1,
                                   caller |-> Top.family_handle, at |-> Len(doc)])
    /\ UNCHANGED <<menu, db, opts, filter, pc, fam_list, fam_pos, doc, ticks>>

\* dump_family: the page break and the recursive call for the next family of
\* the current child that is not the family itself.
Descend ==
    /\ InFamily("recurse")
    /\ opts.recursive
    /\ Top.ci <= Len(TopFamily.children)
    /\ Top.fj >= 1 /\ Top.fj <= Len(RecurseFamilies)
    /\ IsOtherFamily(RecurseFamilies[Top.fj], Top.family_handle)
    /\ Len(stack) < MaxDepth
    /\ doc' = Append(doc, PageBreak)
    /\ stack' = Append(SetTop([Top EXCEPT !.fj = Top.fj + 1]),
                       Frame(RecurseFamilies[Top.fj], NextGeneration(Top.generation)))
    /\ callLog' = Append(callLog, [family_handle |-> RecurseFamilies[Top.fj],
                                   generation |-> NextGeneration(Top.generation),
                                   depth |-> Len(stack) + 1,
                                   caller |-> Top.family_handle, at |-> Len(doc) + 1])
    /\ UNCHANGED <<menu, db, opts, filter, pc, fam_list, fam_pos, ticks>>

SkipOwnFamily ==
    /\ InFamily("recurse")
    /\ opts.recursive
    /\ Top.ci <= Len(TopFamily.children)
    /\ Top.fj >= 1 /\ Top.fj <= Len(RecurseFamilies)
    /\ ~IsOtherFamily(RecurseFamilies[Top.fj], Top.family_handle)
    /\ stack' = SetTop([Top EXCEPT !.fj = Top.fj + 1])
    /\ UNCHANGED <<menu, db, opts, filter, pc, fam_list, fam_pos, doc, ticks, callLog>>

NextChild ==
    /\ InFamily("recurse")
    /\ opts.recursive
    /\ Top.ci <= Len(TopFamily.children)
    /\ Top.fj > Len(RecurseFamilies)
    /\ stack' = SetTop([Top EXCEPT !.ci = Top.ci + 1, !.fj = 0])
    /\ UNCHANGED <<menu, db, opts, filter, pc, fam_list, fam_pos, doc, ticks, callLog>>

\* dump_family returns.
Return ==
    /\ InFamily("recurse")
    /\ ~opts.recursive \/ Top.ci > Len(TopFamily.children)
    /\ stack' = SubSeq(stack, 1, Len(stack) - 1)
    /\ pc' = IF Len(stack) = 1 THEN "break" ELSE pc
    /\ UNCHANGED <<menu, db, opts, filter, fam_list, fam_pos, doc, ticks, callLog>>

\* Mutant: no page break after a family of the list.
DriverPageBreak_Missing ==
    /\ pc = "break"
    /\ pc' = "step"
    /\ UNCHANGED <<menu, db, opts, filter, fam_list, fam_pos, stack, doc, ticks, callLog>>

\* write_report: the page break after a family of the list.
DriverPageBreak ==
    /\ pc = "break"
    /\ doc' = Append(doc, PageBreak)
    /\ pc' = "step"
    /\ UNCHANGED <<menu, db, opts, filter, fam_list, fam_pos, stack, ticks, callLog>>

\* Mutant: the family just rendered is taken out of the database.
DriverStep_DropsFamily ==
    /\ pc = "step"
    /\ ticks' = ticks + 1
    /\ fam_pos' = fam_pos + 1
    /\ pc' = IF fam_pos' <= Len(fam_list) THEN "loop" ELSE "done"
    /\ db' = [db EXCEPT !.family = Restrict(@, {fam_list[fam_pos]})]
    /\ UNCHANGED <<menu, opts, filter, fam_list, stack, doc, callLog>>

\* write_report: step(), then the next family of the list or the end.
DriverStep ==
    /\ pc = "step"
    /\ ticks' = ticks + 1
    /\ fam_pos' = fam_pos + 1
    /\ pc' = IF fam_pos' <= Len(fam_list) THEN "loop" ELSE "done"
    /\ UNCHANGED <<menu, db, opts, filter, fam_list, stack, doc, callLog>>

Next ==
    \/ ApplyFilter
    \/ EmptyReport
    \/ CallDumpFamily
    \/ DumpTitle
    \/ DumpHusband
    \/ DumpMarriage
    \/ DumpWife
    \/ StartChildren
    \/ DumpChild
    \/ EndChildren
    \/ RecurseChild
    \/ Descend
    \/ SkipOwnFamily
    \/ NextChild
    \/ Return
    \/ DriverPageBreak
    \/ DriverStep

----------------------------------------------------------------------------
(* Initial states: the runs checked *)

\* The option values of add_menu_options.
DefaultOptions ==
    [ gramps_ids |-> FALSE, recursive |-> FALSE, missingInfo |-> TRUE,
      generations |-> TRUE, incFamNotes |-> FALSE, incParEvents |-> FALSE,
      incParAddr |-> FALSE, incParNotes |-> FALSE, incParNames |-> FALSE,
      incParMar |-> TRUE, incRelDates |-> FALSE, incChiMar |-> TRUE,
      includeAttrs |-> FALSE ]

AllDetails ==
    [ DefaultOptions EXCEPT !.gramps_ids = TRUE, !.incFamNotes = TRUE,
      !.incParEvents = TRUE, !.incParAddr = TRUE, !.incParNotes = TRUE,
      !.incParNames = TRUE, !.incRelDates = TRUE, !.includeAttrs = TRUE ]

Start(database, options, filt) ==
    /\ menu = MenuReady
    /\ db = database
    /\ opts = options
    /\ filter = filt
    /\ pc = "start"
    /\ fam_list = <<>>
    /\ fam_pos = 1
    /\ stack = <<>>
    /\ doc = <<>>
    /\ ticks = 0
    /\ callLog = <<>>

OneMarriage == <<EventRef("E1", FAMILY)>>

\* Every family event list, with and without placeholders and attributes.
InitEvents ==
    \E evs \in EventLists, mi \in BOOLEAN, at \in BOOLEAN, pm \in BOOLEAN :
        Start(MkDB(<<"I3">>, evs, "down", "I1", "I2", {}),
              [DefaultOptions EXCEPT !.missingInfo = mi, !.includeAttrs = at,
                                     !.incParMar = pm],
              <<>>)

\* Every child list over every topology, with and without recursion.
InitFamilies ==
    \E kids \in ChildLists, topo \in Topologies,
       rec \in BOOLEAN, gen \in BOOLEAN, cm \in BOOLEAN, mi \in BOOLEAN :
        Start(MkDB(kids, OneMarriage, topo, "I1", "I2", {}),
              [DefaultOptions EXCEPT !.recursive = rec, !.generations = gen,
                                     !.incChiMar = cm, !.missingInfo = mi],
              <<>>)

\* Absent parents.
InitParents ==
    \E father \in {NoHandle, "I1"}, mother \in {NoHandle, "I2"},
       mi \in BOOLEAN, details \in BOOLEAN, topo \in {"leaf", "down"} :
        Start(MkDB(<<"I3", "I4">>, OneMarriage, topo, father, mother, {}),
              [(IF details THEN AllDetails ELSE DefaultOptions) EXCEPT !.missingInfo = mi],
              <<>>)

\* Every filter result.
InitFilters ==
    \E accepted \in SUBSET {"F1", "F2", "F3"}, topo \in {"leaf", "two"}, rec \in BOOLEAN :
        Start(MkDB(<<"I3", "I4">>, OneMarriage, topo, "I1", "I2", {}),
              [DefaultOptions EXCEPT !.recursive = rec],
              <<accepted>>)

\* Every combination of the options that add detail.
InitDetails ==
    \E ids \in BOOLEAN, fn \in BOOLEAN, pe \in BOOLEAN, pa \in BOOLEAN, pn \in BOOLEAN,
       nm \in BOOLEAN, rd \in BOOLEAN, at \in BOOLEAN :
        Start(MkDB(<<"I3", "I4">>, <<EventRef("E2", PRIMARY), EventRef("E3", FAMILY)>>,
                   "two", "I1", "I2", {}),
              [DefaultOptions EXCEPT !.gramps_ids = ids, !.incFamNotes = fn,
                                     !.incParEvents = pe, !.incParAddr = pa,
                                     !.incParNotes = pn, !.incParNames = nm,
                                     !.incRelDates = rd, !.includeAttrs = at],
              <<>>)

\* Dangling handles: a referenced record is not in the database.
Dangling == {"I1", "I2", "I3", "I5", "I6", "F2", "E1", "B1", "B3", "B5", "D1", "O1", "N1"}

InitDangling ==
    \E h \in Dangling, rec \in BOOLEAN :
        Start(MkDB(<<"I3", "I4">>, OneMarriage, "down", "I1", "I2", {h}),
              [AllDetails EXCEPT !.recursive = rec],
              <<>>)

Init ==
    \/ InitEvents
    \/ InitFamilies
    \/ InitParents
    \/ InitFilters
    \/ InitDetails
    \/ InitDangling

Spec == Init /\ [][Next]_vars

----------------------------------------------------------------------------
(* The options menu as a state machine *)

ReportIdle == <<db, opts, filter, pc, fam_list, fam_pos, stack, doc, ticks, callLog>>

\* The filter list is set while the recursive option does not exist yet
\* (__update_filters, called by add_menu_options); the filter notifies.
UpdateFilters ==
    /\ menu.recursive = <<>>
    /\ Len(menu.changes) < MaxChanges
    /\ menu' = filter_changed([menu EXCEPT !.changes =
                                        Append(@, Change(menu, menu.filter_value))])
    /\ UNCHANGED ReportIdle

\* add_menu_options creates the recursive option.
CreateRecursive ==
    /\ menu.recursive = <<>>
    /\ menu' = [menu EXCEPT !.recursive = <<BooleanOption(FALSE)>>]
    /\ UNCHANGED ReportIdle

\* The filter is set to a value; its handler runs before the call returns.
SetFilter ==
    /\ menu.recursive # <<>>
    /\ Len(menu.changes) < MaxChanges
    /\ \E v \in FilterValues :
          menu' = filter_changed([menu EXCEPT !.filter_value = v,
                                              !.changes = Append(@, Change(menu, v))])
    /\ UNCHANGED ReportIdle

\* The user sets the recursive option, which an unavailable option does not allow.
SetRecursive ==
    /\ menu.recursive # <<>>
    /\ menu.recursive[1].available
    /\ \E b \in BOOLEAN :
          /\ b # menu.recursive[1].value
          /\ menu' = [menu EXCEPT !.recursive = <<[@[1] EXCEPT !.value = b]>>]
    /\ UNCHANGED ReportIdle

MenuNext ==
    \/ UpdateFilters
    \/ CreateRecursive
    \/ SetFilter
    \/ SetRecursive

MenuInit ==
    /\ menu = MenuCreated
    /\ db = MkDB(<<>>, <<>>, "leaf", "I1", "I2", {})
    /\ opts = DefaultOptions
    /\ filter = <<>>
    /\ pc = "menu"
    /\ fam_list = <<>>
    /\ fam_pos = 1
    /\ stack = <<>>
    /\ doc = <<>>
    /\ ticks = 0
    /\ callLog = <<>>

MenuSpec == MenuInit /\ [][MenuNext]_vars

----------------------------------------------------------------------------
(* Reading the document *)

Min(set) == CHOOSE x \in set : \A y \in set : x <= y

RECURSIVE Ascending(_)
Ascending(set) ==
    IF set = {} THEN <<>> ELSE <<Min(set)>> \o Ascending(set \ {Min(set)})

\* The section of the k-th dump_family call: the calls it made itself lie in
\* doc[SectionFrom(k) .. SectionTo(k)], before the first call of a later section.
SectionFrom(k) == callLog[k].at + 1
SectionTo(k) == IF k < Len(callLog) THEN callLog[k + 1].at ELSE Len(doc)
Sections == 1..Len(callLog)
SectionFamily(k) == FamilyOf(callLog[k].family_handle)

\* The complete tables of a name in doc[from..to]: [from, to] of start_table
\* and its end_table.
Tables(name, from, to) ==
    { t \in { [from |-> i, to |-> Min({ j \in i..to : doc[j].op = "end_table" } \cup {to + 1})] :
                i \in { i \in from..to : doc[i].op = "start_table" /\ doc[i].name = name } } :
        t.to <= to }

\* The labelled rows in doc[from..to]: rows whose first cell holds a text.
\* A group is a labelled row with the unlabelled rows that follow it.
LabelledRows(from, to) ==
    Ascending({ i \in from..to : /\ doc[i].op = "start_row"
                                 /\ i + 3 <= to
                                 /\ doc[i + 3].op = "write_text" })

GroupEnd(rows, k, to) == IF k < Len(rows) THEN rows[k + 1] - 1 ELSE to

\* The texts written in doc[from..to], in order.
Texts(from, to) ==
    LET at == Ascending({ i \in from..to : doc[i].op \in {"write_text", "write_styled_note"} })
    IN [k \in 1..Len(at) |-> doc[at[k]].text]

\* The texts of the groups of doc[from..to], one sequence of texts per group.
Groups(from, to) ==
    LET rows == LabelledRows(from, to)
    IN [k \in 1..Len(rows) |-> Texts(rows[k], GroupEnd(rows, k, to))]

\* The style of the first cell of each row of doc[from..to].
RowStyles(from, to) ==
    LET rows == Ascending({ i \in from..to : doc[i].op = "start_row" })
    IN [k \in 1..Len(rows) |-> doc[rows[k] + 1].style]

\* What a row of dump_parent_event shows of an event (<<>>: no event): the
\* description when there is one, then date and place unless both are empty
\* and a description was shown.
EventFields(event) ==
    IF event = <<>> THEN [descr |-> Empty, date |-> Empty, place |-> Empty]
    ELSE [descr |-> IF opts.includeAttrs THEN AppendAttrs(event[1].descr, event[1].attrs)
                    ELSE event[1].descr,
          date |-> event[1].date, place |-> event[1].place]

Shown(event) ==
    LET f == EventFields(event)
    IN IF f.descr = Empty THEN <<f.date, f.place>>
       ELSE IF f.date = Empty /\ f.place = Empty THEN <<f.descr>>
       ELSE <<f.descr, f.date, f.place>>

\* The positions of a family event list that qualify as the family's marriage.
Qualifying(evrefs) ==
    { i \in 1..Len(evrefs) : /\ HasEvent(evrefs[i].ref)
                             /\ db.event[evrefs[i].ref].type = MARRIAGE
                             /\ evrefs[i].role \in {FAMILY, PRIMARY} }

\* The complete marriage tables of the document, each with its section.
MarriageTables ==
    UNION { { [k |-> k, from |-> t.from, to |-> t.to] :
                t \in Tables(S("MarriageInfo"), SectionFrom(k), SectionTo(k)) } :
            k \in Sections }

\* The complete children tables of the document, each with its section.
ChildrenTables ==
    UNION { { [k |-> k, from |-> t.from, to |-> t.to] :
                t \in Tables(S("FGR-Children"), SectionFrom(k), SectionTo(k)) } :
            k \in Sections }

\* The complete parent tables of a title in a section.
ParentTables(title, k) == Tables(title, SectionFrom(k), SectionTo(k))

\* The texts of each row of doc[from..to], one sequence of texts per row.
Rows(from, to) ==
    LET rows == Ascending({ i \in from..to : doc[i].op = "start_row" })
    IN [k \in 1..Len(rows) |-> Texts(rows[k], GroupEnd(rows, k, to))]

\* The calls of doc[from..to] with an operation of ops.
CallsOf(ops, from, to) == { i \in from..to : doc[i].op \in ops }

----------------------------------------------------------------------------
(* Claims *)

\* C1: in every marriage block, the 'Marriage' row shows the first event of
\* the family's event list whose type is MARRIAGE and whose role is FAMILY or
\* PRIMARY; when no event qualifies the row is there with empty date and
\* place and no description.
C1_MarriageRowShowsFirstQualifying ==
    \A m \in MarriageTables :
        LET evrefs == SectionFamily(m.k).evrefs
            q == Qualifying(evrefs)
            expected == IF q = {} THEN <<>> ELSE <<db.event[evrefs[Min(q)].ref]>>
            groups == Groups(m.from, m.to)
        IN /\ Len(groups) >= 2
           /\ groups[2] = <<S("Marriage")>> \o Shown(expected)
           /\ q = {} => groups[2] = <<S("Marriage"), Empty, Empty>>

\* C1 witness: a marriage block of a family whose list holds a marriage with a
\* non-qualifying role before a qualifying one.
C1_Witness ==
    \E m \in MarriageTables :
        LET evrefs == SectionFamily(m.k).evrefs
        IN /\ Len(evrefs) >= 2
           /\ db.event[evrefs[1].ref].type = MARRIAGE
           /\ 1 \notin Qualifying(evrefs)
           /\ 2 \in Qualifying(evrefs)

\* C2: every event shown as the marriage event of a family, in the parents'
\* marriage block and in the marriage rows of a child, has type MARRIAGE and
\* is referenced by that family with role FAMILY or PRIMARY.
C2_MarriageEventsQualify ==
    /\ \A m \in MarriageTables :
          LET evrefs == SectionFamily(m.k).evrefs
              groups == Groups(m.from, m.to)
          IN \/ groups[2] = <<S("Marriage"), Empty, Empty>>
             \/ \E i \in Qualifying(evrefs) :
                   groups[2] = <<S("Marriage")>> \o Shown(<<db.event[evrefs[i].ref]>>)
    /\ \A c \in ChildrenTables :
          LET children == SectionFamily(c.k).children
              starts == LabelledRows(c.from, c.to)
          IN \A n \in 1..Len(children) :
               LET rows == Rows(starts[n + 1], GroupEnd(starts, n + 1, c.to))
                   families == PersonOf(children[n]).families
               IN \A r \in 1..Len(rows) :
                    (Len(rows[r]) = 3 /\ rows[r][1] = S("Marriage")) =>
                        \E f \in Range(families) :
                            \E i \in Qualifying(FamilyOf(f).evrefs) :
                                LET event == db.event[FamilyOf(f).evrefs[i].ref]
                                IN rows[r] = <<S("Marriage"), event.date, event.place>>

\* C3: in every marriage block the rows below the 'Marriage' row are the
\* family's events whose type is not MARRIAGE, in list order, each once,
\* followed only by the attribute and note rows; no other MARRIAGE event
\* has a row.
C3_OtherEventsAreNonMarriage ==
    \A m \in MarriageTables :
        LET family == SectionFamily(m.k)
            evrefs == family.evrefs
            others == SelectSeq(evrefs, LAMBDA r : db.event[r.ref].type # MARRIAGE)
            nattrs == IF opts.includeAttrs THEN Len(family.attrs) ELSE 0
            nnotes == IF opts.incFamNotes THEN Len(family.notes) ELSE 0
            groups == Groups(m.from, m.to)
        IN /\ Len(groups) = 2 + Len(others) + nattrs + nnotes
           /\ \A i \in 1..Len(others) :
                 groups[2 + i] = <<S(db.event[others[i].ref].type)>>
                                 \o Shown(<<db.event[others[i].ref]>>)

\* C3 witness: a marriage block of a family with two qualifying marriages, or
\* with a non-marriage event after a marriage.
C3_Witness ==
    \E m \in MarriageTables :
        LET evrefs == SectionFamily(m.k).evrefs
        IN /\ Len(evrefs) >= 2
           /\ Cardinality(Qualifying(evrefs)) = 2

\* C4: for an absent parent handle, with missing-info disabled the parent step
\* adds no call to the document; with missing-info enabled the parent table
\* holds the title row with an empty name and the placeholder rows Birth,
\* Death, Father and Mother, and nothing else.
C4_AbsentParent ==
    LET Placeholder(title) ==
            << <<title \o S(": ")>>, <<S("Birth"), Empty, Empty>>,
               <<S("Death"), Empty, Empty>>, <<S("Father"), Empty>>,
               <<S("Mother"), Empty>> >>
        Absent(title, handle, k) ==
            handle = NoHandle =>
                IF opts.missingInfo
                THEN \A t \in ParentTables(title, k) :
                        /\ Groups(t.from, t.to) = Placeholder(title)
                        /\ Cardinality(CallsOf({"start_row"}, t.from, t.to)) = 5
                ELSE ParentTables(title, k) = {}
    IN /\ \A k \in Sections :
            /\ Absent(S("Husband"), SectionFamily(k).father, k)
            /\ Absent(S("Wife"), SectionFamily(k).mother, k)
       \* right after the husband step: title paragraph, then the blank paragraph
       /\ (InFamily("marriage") /\ TopFamily.father = NoHandle /\ ~opts.missingInfo) =>
            /\ SubSeq(doc, Len(doc) - 1, Len(doc)) = BlankParagraph
            /\ doc[Len(doc) - 2] = EndParagraph
            /\ doc[Len(doc) - 4] = StartParagraph("FGR-Title")
       \* right after the wife step: the document still ends with the blank paragraph
       /\ (InFamily("children") /\ TopFamily.mother = NoHandle /\ ~opts.missingInfo) =>
            SubSeq(doc, Len(doc) - 1, Len(doc)) = BlankParagraph
       \* with missing-info the table is there once the step is done
       /\ (InFamily("marriage") /\ TopFamily.father = NoHandle /\ opts.missingInfo) =>
            ParentTables(S("Husband"), Len(callLog)) # {}
       /\ (InFamily("children") /\ TopFamily.mother = NoHandle /\ opts.missingInfo) =>
            ParentTables(S("Wife"), Len(callLog)) # {}

\* C4 witness: the wife step is done for a family without mother, the husband
\* being absent too, with placeholders enabled.
C4_Witness ==
    /\ InFamily("children")
    /\ TopFamily.mother = NoHandle /\ TopFamily.father = NoHandle
    /\ opts.missingInfo
    /\ ParentTables(S("Wife"), Len(callLog)) # {}

\* The label of the k-th child of a table, from the child's recorded gender.
ExpectedLabel(k, gender) ==
    <<ToString(k), CASE gender = MALE -> "M" [] gender = FEMALE -> "F" [] OTHER -> "U">>

\* C5: a children table of a family with n children holds n child groups in
\* child-list order, the k-th labelled k with M, F or U by the child's gender,
\* whether or not children's marriages are included.
C5_ChildLabels ==
    /\ \A c \in ChildrenTables :
          LET children == SectionFamily(c.k).children
              groups == Groups(c.from, c.to)
          IN /\ Len(groups) = Len(children) + 1
             /\ groups[1] = <<S("Children")>>
             /\ \A k \in 1..Len(children) :
                  /\ groups[k + 1][1] = ExpectedLabel(k, PersonOf(children[k]).gender)
                  /\ groups[k + 1][2] = PersonOf(children[k]).name
    \* a finished section of a family with children has its table
    /\ \A k \in Sections :
          (pc = "done" /\ Len(SectionFamily(k).children) >= 1) =>
              Cardinality({ c \in ChildrenTables : c.k = k }) = 1

\* C5 witness: a table of two children, the first of them with a spouse row,
\* the second of unknown gender.
C5_Witness ==
    \E c \in ChildrenTables :
        LET children == SectionFamily(c.k).children
        IN /\ Len(children) = 2
           /\ opts.incChiMar
           /\ PersonOf(children[1]).families # <<>>
           /\ PersonOf(children[2]).gender = UNKNOWN

\* C6: the section of a family without children has no children table: no
\* FGR-Children table, no 'Children' header and no child row.
C6_NoChildrenNoTable ==
    \A k \in Sections :
        SectionFamily(k).children = <<>> =>
            \A i \in SectionFrom(k)..SectionTo(k) :
                /\ ~(doc[i].op = "start_table" /\ doc[i].name = S("FGR-Children"))
                /\ ~(doc[i].op = "write_text" /\ doc[i].text = S("Children"))
                /\ ~(doc[i].op = "start_cell"
                     /\ doc[i].style \in {"FGR-TextChild1", "FGR-TextChild2", "FGR-ChildName"})

\* C6 witness: the finished section of a family without children whose wife
\* table is in the document.
C6_Witness ==
    \E k \in Sections :
        /\ SectionFamily(k).children = <<>>
        /\ HasFamily(callLog[k].family_handle)
        /\ ParentTables(S("Wife"), k) # {}
        /\ pc = "done"

\* C7: the title of a section reads 'Family Group Report - Generation N' with
\* N the depth of the dump_family call when recursion and generation
\* numbering are both enabled, and 'Family Group Report' otherwise; calls of
\* the driver have depth 1, recursive calls one more than their caller.
C7_TitleGeneration ==
    /\ \A k \in Sections :
          /\ SectionFrom(k) + 1 <= Len(doc) =>
                /\ doc[SectionFrom(k)] = StartParagraph("FGR-Title")
                /\ doc[SectionFrom(k) + 1].op = "write_text"
                /\ doc[SectionFrom(k) + 1].text =
                      IF opts.recursive /\ opts.generations
                      THEN <<"Family Group Report - Generation ", ToString(callLog[k].depth)>>
                      ELSE <<"Family Group Report">>
          /\ callLog[k].caller = NoHandle => callLog[k].depth = 1
    /\ \A i \in 1..Len(stack) : stack[i].generation = i

\* C7 witness: the title of a family reached by recursion from a family of the
\* driver's list, with generation numbering.
C7_Witness ==
    \E k \in Sections :
        /\ callLog[k].depth = 2
        /\ opts.recursive /\ opts.generations
        /\ SectionFrom(k) + 1 <= Len(doc)
        /\ doc[SectionFrom(k) + 1].text = <<"Family Group Report - Generation ", "2">>

\* C8 as stated: below a family that is being rendered, the family is never
\* rendered again.
C8_NeverRenderedAgainBelow ==
    \A i \in 1..Len(stack) : \A j \in 1..Len(stack) :
        i < j => stack[j].family_handle # stack[i].family_handle

\* C8 amended: a dump_family call never calls dump_family for its own family:
\* the family of a recursive call differs from the family of its caller.
C8_NeverCallsOwnFamily ==
    /\ \A k \in Sections :
          callLog[k].caller # NoHandle => callLog[k].family_handle # callLog[k].caller
    /\ \A i \in 1..Len(stack) - 1 :
          stack[i + 1].family_handle # stack[i].family_handle

\* C8 witness: the recursion loop has passed a child whose family list holds
\* the family being rendered.
C8_Witness ==
    /\ InFamily("recurse")
    /\ opts.recursive
    /\ \E c \in 1..Len(TopFamily.children) :
          /\ c < Top.ci
          /\ Top.family_handle \in Range(PersonOf(TopFamily.children[c]).families)

\* The page breaks of the driver loop: those not made by a recursive call.
DriverBreaks ==
    Cardinality(CallsOf({"page_break"}, 1, Len(doc)))
    - Cardinality({ k \in Sections : callLog[k].caller # NoHandle })

DriverCalls == SelectSeq(callLog, LAMBDA e : e.caller = NoHandle)

\* C9: write_report handles the families of a non-empty list in list order:
\* dump_family at generation 1, then one page break, then one tick; the ticks
\* count the families handled and never run ahead of the rendering.
C9_DriverSequence ==
    fam_list # <<>> =>
        /\ Len(DriverCalls) <= Len(fam_list)
        /\ \A n \in 1..Len(DriverCalls) :
              /\ DriverCalls[n].family_handle = fam_list[n]
              /\ DriverCalls[n].generation = 1
              \* the section starts at the document's start or after a page break
              /\ IF n = 1 THEN DriverCalls[n].at = 0
                 ELSE doc[DriverCalls[n].at] = PageBreak
        /\ ticks = fam_pos - 1
        /\ Len(DriverCalls) = (IF pc = "loop" \/ pc = "done" THEN ticks ELSE ticks + 1)
        /\ DriverBreaks = (IF pc = "step" THEN ticks + 1 ELSE ticks)
        /\ pc = "step" => (stack = <<>> /\ doc[Len(doc)] = PageBreak)
        /\ pc = "done" => ticks = Len(fam_list)

\* C9 witness: a run over a list of two families or more has ended.
C9_Witness ==
    pc = "done" /\ Len(fam_list) >= 2 /\ ticks = Len(fam_list)

\* C10: for an empty family list the document is one paragraph with the plain
\* title; there is no dump_family call, no page break and no tick.
C10_EmptyList ==
    (pc \in {"empty", "done"} /\ fam_list = <<>>) =>
        /\ doc = IF pc = "empty" THEN <<>>
                 ELSE << StartParagraph("FGR-Title"), WriteText(<<"Family Group Report">>),
                         EndParagraph >>
        /\ ticks = 0
        /\ callLog = <<>>
        /\ stack = <<>>

\* C10 witness: a run with recursion and generation numbering enabled has
\* ended on an empty family list.
C10_Witness ==
    pc = "done" /\ fam_list = <<>> /\ opts.recursive /\ opts.generations /\ doc # <<>>

\* C11: the section of a family holds a 'MarriageInfo' table if and only if
\* parent-marriage inclusion is enabled and the family's event list is
\* non-empty or missing-info is on or attribute inclusion is on; when
\* inclusion is enabled and none of the three holds, the marriage step adds
\* nothing between the blank paragraph that follows the husband block and the
\* blank paragraph that follows the marriage step.
C11_MarriageBlockCondition ==
    LET Expected(family) ==
            /\ opts.incParMar
            /\ (Len(family.evrefs) > 0 \/ opts.missingInfo \/ opts.includeAttrs)
    IN /\ \A m \in MarriageTables : Expected(SectionFamily(m.k))
       /\ \A k \in Sections :
             Cardinality(CallsOf({"start_table"}, SectionFrom(k), SectionTo(k))
                         \cap { i \in 1..Len(doc) : doc[i].name = S("MarriageInfo") }) <= 1
       \* right after the marriage step
       /\ InFamily("wife") =>
             LET k == Len(callLog)
                 n == Len(doc)
             IN /\ Expected(TopFamily) <=> Tables(S("MarriageInfo"), SectionFrom(k), n) # {}
                /\ (Expected(TopFamily) /\ opts.incParMar) =>
                      /\ doc[n - 2] = EndTable
                      /\ SubSeq(doc, n - 1, n) = BlankParagraph
                /\ (~Expected(TopFamily) /\ opts.incParMar) =>
                      /\ SubSeq(doc, n - 3, n) = BlankParagraph \o BlankParagraph
                      /\ doc[n - 4] \in {EndTable, EndParagraph}
                /\ ~opts.incParMar =>
                      /\ SubSeq(doc, n - 1, n) = BlankParagraph
                      /\ doc[n - 2] \in {EndTable, EndParagraph}
                      /\ doc[n - 2] = EndParagraph => doc[n - 4] = StartParagraph("FGR-Title")

\* C11 witness: the marriage step is done, with parent-marriage inclusion, for
\* a family without events, missing-info and attribute inclusion being off.
C11_Witness ==
    /\ InFamily("wife")
    /\ opts.incParMar /\ ~opts.missingInfo /\ ~opts.includeAttrs
    /\ TopFamily.evrefs = <<>>
    /\ TopFamily.father # NoHandle

\* The child groups of the complete children tables: [from, to] of each
\* group with the child it shows.
ChildGroups ==
    UNION { LET starts == LabelledRows(c.from, c.to)
                children == SectionFamily(c.k).children
            IN { [child |-> children[n], from |-> starts[n + 1],
                  to |-> GroupEnd(starts, n + 1, c.to - 1)] : n \in 1..Len(children) } :
            c \in ChildrenTables }

\* C12: in every child group the first cell of the last row has the closing
\* style 'FGR-TextChild2' and the first cell of every row before it has the
\* open style 'FGR-TextChild1'.
C12_ClosingStyleOnLastRow ==
    \A g \in ChildGroups :
        LET styles == RowStyles(g.from, g.to)
        IN /\ Len(styles) >= 1
           /\ styles[Len(styles)] = "FGR-TextChild2"
           /\ \A r \in 1..Len(styles) - 1 : styles[r] = "FGR-TextChild1"

\* The first event of type MARRIAGE of an event reference list: <<>> or <<event>>.
FirstMarriage(evrefs) ==
    LET at == { i \in 1..Len(evrefs) : db.event[evrefs[i].ref].type = MARRIAGE }
    IN IF at = {} THEN <<>> ELSE <<db.event[evrefs[Min(at)].ref]>>

\* The other parent of a family of the person ("": none).
OtherParent(person_handle, family) ==
    IF family.father = person_handle THEN family.mother ELSE family.father

\* The spouse and marriage rows a child's families call for, in list order:
\* a spouse row for a family with another parent, a marriage row for a family
\* with an event of type MARRIAGE.
RECURSIVE ExpectedFamilyRows(_, _)
ExpectedFamilyRows(person_handle, families) ==
    IF families = <<>> THEN <<>>
    ELSE LET family == FamilyOf(families[1])
             other == OtherParent(person_handle, family)
             mrg == FirstMarriage(family.evrefs)
         IN (IF other # NoHandle THEN <<[label |-> "Spouse", first |-> PersonOf(other).name]>>
             ELSE <<>>)
            \o (IF mrg # <<>> THEN <<[label |-> "Marriage", first |-> mrg[1].date]>> ELSE <<>>)
            \o ExpectedFamilyRows(person_handle, Tail(families))

\* The spouse and marriage rows of a child group, as [label, first]: the
\* label and the start of the text that follows it.
FamilyRowsOf(g) ==
    LET rows == SelectSeq(Rows(g.from, g.to),
                          LAMBDA r : r # <<>> /\ r[1] \in {S("Spouse"), S("Marriage")})
    IN [k \in 1..Len(rows) |->
          [label |-> rows[k][1][1],
           first |-> IF rows[k][1] = S("Marriage") THEN rows[k][2]
                     ELSE SubSeq(rows[k][2], 1, 1)]]

\* C13 as stated: with children's marriages included, every family of a
\* child's family list has a spouse row in the child's group.
C13_SpouseRowPerFamily ==
    \A g \in ChildGroups :
        opts.incChiMar =>
            Len(SelectSeq(FamilyRowsOf(g), LAMBDA r : r.label = "Spouse"))
                = Len(PersonOf(g.child).families)

\* C13 amended: with children's marriages included, a child's group holds,
\* for the families of the child's list in list order, a spouse row when the
\* family has another parent, followed by a marriage row when the family's
\* event list holds an event of type MARRIAGE (the first such event is shown);
\* a child without families has neither row, and with the option disabled no
\* child has a spouse or marriage row.
C13_SpouseAndMarriageRows ==
    \A g \in ChildGroups :
        FamilyRowsOf(g) = IF opts.incChiMar
                          THEN ExpectedFamilyRows(g.child, PersonOf(g.child).families)
                          ELSE <<>>

\* C13 witness: with the option enabled, the group of a child with two
\* families, one of them without another parent, next to the group of a child
\* without families.
C13_Witness ==
    /\ opts.incChiMar
    /\ \E g \in ChildGroups :
          LET families == PersonOf(g.child).families
          IN /\ Len(families) = 2
             /\ \E i \in 1..2 : OtherParent(g.child, FamilyOf(families[i])) = NoHandle
             /\ Len(FamilyRowsOf(g)) >= 3
    /\ \E g \in ChildGroups : PersonOf(g.child).families = <<>>

\* C14: no step of write_report changes the database (the person, family,
\* event and note tables, and with them every handle list), the options or
\* the filter; a step only appends calls to the document and advances the
\* progress counter by at most one.
C14_DatabaseUnchanged ==
    [][ /\ db' = db
        /\ opts' = opts
        /\ filter' = filter
        /\ Len(doc') >= Len(doc)
        /\ SubSeq(doc', 1, Len(doc)) = doc
        /\ ticks' \in {ticks, ticks + 1} ]_vars

\* C14 witness: a run with a filter and with recursion has ended after
\* rendering more sections than the list has families.
C14_Witness ==
    /\ pc = "done"
    /\ filter # <<>>
    /\ opts.recursive
    /\ ticks = Len(fam_list) /\ ticks >= 1
    /\ Len(callLog) > ticks
    /\ doc # <<>>

\* The descent relation: family f has a child who is a parent in a family g
\* different from f.
DescendsTo(f, g) ==
    /\ f \in DOMAIN db.family
    /\ g # f
    /\ \E c \in Range(db.family[f].children) :
          c \in DOMAIN db.person /\ g \in Range(db.person[c].families)

FamilyHandles == Range(AllFamilyHandles)

\* The families reached from the families of `from` in at most n descents.
RECURSIVE Descendants(_, _)
Descendants(from, n) ==
    IF n = 0 THEN from
    ELSE LET near == Descendants(from, n - 1)
         IN near \cup { g \in FamilyHandles : \E f \in near : DescendsTo(f, g) }

\* The families write_report lists: the filter's result.
DriverList ==
    IF filter = <<>> THEN get_family_handles
    ELSE SelectSeq(get_family_handles, LAMBDA h : h \in filter[1])

\* A cycle of the descent relation is reachable from a family of `from`.
CycleReachedFrom(from) ==
    \E f \in Descendants(from, Cardinality(FamilyHandles)) :
        f \in Descendants({ g \in FamilyHandles : DescendsTo(f, g) }, Cardinality(FamilyHandles))

CycleReached == CycleReachedFrom(Range(DriverList))

\* The number of families of the longest descent chain that starts at f and
\* has at most n descents.
RECURSIVE ChainFrom(_, _)
ChainFrom(f, n) ==
    LET next == { g \in FamilyHandles : DescendsTo(f, g) }
        longer == { ChainFrom(g, n - 1) : g \in next }
    IN IF n = 0 \/ next = {} THEN 1
       ELSE 1 + (CHOOSE x \in longer : \A y \in longer : x >= y)

LongestChain ==
    LET lengths == { ChainFrom(f, Cardinality(FamilyHandles)) : f \in Range(DriverList) }
    IN IF lengths = {} THEN 0 ELSE CHOOSE x \in lengths : \A y \in lengths : x >= y

Ended == pc \in {"done", "error"}

\* The recursion is about to call dump_family for a family of a child.
DescentPending ==
    /\ InFamily("recurse")
    /\ opts.recursive
    /\ Top.ci <= Len(TopFamily.children)
    /\ Top.fj >= 1 /\ Top.fj <= Len(RecurseFamilies)
    /\ IsOtherFamily(RecurseFamilies[Top.fj], Top.family_handle)

\* The position of a run: the driver's position, then the position of every
\* frame, outermost first.
PcRank(p) ==
    CASE p = "start" -> 0 [] p \in {"empty", "loop"} -> 1 [] p = "in_family" -> 2
      [] p = "break" -> 3 [] p = "step" -> 4 [] OTHER -> 5

AtRank(at) ==
    CASE at = "title" -> 0 [] at = "husband" -> 1 [] at = "marriage" -> 2
      [] at = "wife" -> 3 [] at = "children" -> 4 [] at = "child" -> 5 [] OTHER -> 6

RECURSIVE FramePositions(_)
FramePositions(frames) ==
    IF frames = <<>> THEN <<>>
    ELSE <<AtRank(frames[1].at), frames[1].index, frames[1].ci, frames[1].fj>>
         \o FramePositions(Tail(frames))

Position(pos, p, frames) == <<pos, PcRank(p)>> \o FramePositions(frames)

\* Position a lies before position b: at the first difference a is smaller,
\* or b is a's start (a call that has returned lies behind).
Before(a, b) ==
    \/ Len(b) < Len(a) /\ SubSeq(a, 1, Len(b)) = b
    \/ \E i \in 1..Len(a) :
          /\ i <= Len(b)
          /\ SubSeq(a, 1, i - 1) = SubSeq(b, 1, i - 1)
          /\ a[i] < b[i]

\* The positions of a run whose recursion is at most n deep are finitely many.
PositionsBounded(n) ==
    /\ fam_pos <= Len(fam_list) + 1
    /\ Len(stack) <= n
    /\ \A i \in 1..Len(stack) :
          LET children == FamilyOf(stack[i].family_handle).children
          IN /\ stack[i].index <= Len(children) + 1
             /\ stack[i].ci <= Len(children) + 1
             /\ stack[i].ci <= Len(children) =>
                   stack[i].fj <= Len(PersonOf(children[stack[i].ci]).families) + 1

\* C15: every step moves the run to a later position.  Without recursion, and
\* with recursion when no cycle of the descent relation is reachable from the
\* driver's list, the recursion is never deeper than the longest descent
\* chain, so the positions are finitely many and the run ends, a pending
\* descent always being possible; every dump_family call made has returned
\* when the run is done.  With recursion and a reachable cycle the run never
\* ends: it is never done, and no call for a family from which a cycle is
\* reachable returns.
C15_TerminatesIffAcyclic ==
    /\ [][Before(Position(fam_pos, pc, stack), Position(fam_pos', pc', stack'))]_vars
    /\ []((~opts.recursive \/ ~CycleReached) =>
             /\ PositionsBounded(IF opts.recursive THEN LongestChain ELSE 1)
             /\ (DescentPending => Len(stack) < LongestChain /\ Len(stack) < MaxDepth)
             /\ (pc = "done" => stack = <<>> /\ fam_pos = Len(fam_list) + 1))
    /\ []((opts.recursive /\ CycleReached) => pc # "done")
    /\ [][(opts.recursive /\ Len(stack') < Len(stack)) =>
             ~CycleReachedFrom({Top.family_handle})]_vars

\* C15 witness: with recursion on a cycle of two families, the recursion has
\* come back to the family it started from and is about to descend again.
C15_Witness ==
    /\ opts.recursive
    /\ CycleReached
    /\ Len(stack) >= 3
    /\ stack[1].family_handle = stack[3].family_handle
    /\ DescentPending

\* The handles that are referenced but have no record.
MissingHandles ==
    (DOMAIN PersonTable(db.family) \ DOMAIN db.person)
    \cup (DOMAIN Events \ DOMAIN db.event)
    \cup (DOMAIN Notes \ DOMAIN db.note)
    \cup { f \in FamilyHandles \ DOMAIN db.family :
             \E h \in DOMAIN db.person :
                 f \in Range(db.person[h].families) \/ db.person[h].parents = f }

\* C16: a failed lookup ends the run in the error outcome at that lookup: the
\* failing step leaves the call stack, the driver's position and the progress
\* counter as they were and adds only the calls made before the lookup; no
\* step follows (no retry, no later document call, no rendering of the
\* remaining families); a run over a database with a missing record that the
\* report looks up never ends normally; the error outcome arises from a
\* missing record only.
C16_LookupFailureEndsRun ==
    /\ [][pc # "error"]_vars
    /\ [][pc' = "error" =>
             /\ pc = "in_family"
             /\ stack' = stack /\ callLog' = callLog
             /\ ticks' = ticks /\ fam_pos' = fam_pos /\ fam_list' = fam_list
             /\ SubSeq(doc', 1, Len(doc)) = doc
             /\ \A i \in Len(doc) + 1..Len(doc') : doc'[i] # PageBreak]_vars
    /\ [](pc = "error" =>
             /\ MissingHandles # {}
             /\ stack # <<>>
             /\ Len(DriverCalls) = fam_pos
             /\ ticks = fam_pos - 1
             /\ DriverBreaks = ticks)
    /\ [](MissingHandles # {} => pc # "done")
    \* the spouse's record is looked up inside the open cell of the spouse row
    /\ []((pc = "error" /\ MissingHandles = {"I5"}) =>
             /\ doc[Len(doc)] = StartParagraph("FGR-Normal")
             /\ doc[Len(doc) - 1] = StartCell("FGR-TextContentsEnd", 2)
             /\ doc[Len(doc) - 4] = WriteText(S("Spouse")))

\* C16 witness: the lookup of a spouse's record has failed inside the spouse
\* row of the first family's children table, a family of the list remaining.
C16_Witness ==
    /\ pc = "error"
    /\ MissingHandles = {"I5"}
    /\ fam_pos < Len(fam_list)
    /\ doc[Len(doc)] = StartParagraph("FGR-Normal")

IsPrefix(a, b) == Len(a) <= Len(b) /\ SubSeq(b, 1, Len(a)) = a

RECURSIVE Concat(_)
Concat(seqs) == IF seqs = <<>> THEN <<>> ELSE seqs[1] \o Concat(Tail(seqs))

\* The families to render from family f at depth d, depth-first: f, then for
\* the children in child-list order and the families of each child in list
\* order, the family (if it is not f) with its own descendants.
RECURSIVE Preorder(_, _)
Preorder(f, d) ==
    <<[family_handle |-> f, depth |-> d]>>
    \o (IF ~opts.recursive \/ d >= MaxDepth \/ f \notin DOMAIN db.family THEN <<>>
        ELSE LET children == db.family[f].children
                 Below(c) ==
                     LET families == SelectSeq(PersonOf(c).families, LAMBDA g : g # f)
                     IN Concat([j \in 1..Len(families) |-> Preorder(families[j], d + 1)])
             IN Concat([i \in 1..Len(children) |-> Below(children[i])]))

ExpectedSections == Concat([i \in 1..Len(fam_list) |-> Preorder(fam_list[i], 1)])

\* The names of the tables started in section k, in order.
TableNames(k) ==
    LET at == Ascending(CallsOf({"start_table"}, SectionFrom(k), SectionTo(k)))
    IN [i \in 1..Len(at) |-> doc[at[i]].name]

\* The tables the section of a family holds, in the order stated.
ExpectedTables(family) ==
    (IF family.father # NoHandle \/ opts.missingInfo THEN <<S("Husband")>> ELSE <<>>)
    \o (IF opts.incParMar
           /\ (family.evrefs # <<>> \/ opts.missingInfo \/ opts.includeAttrs)
        THEN <<S("MarriageInfo")>> ELSE <<>>)
    \o (IF family.mother # NoHandle \/ opts.missingInfo THEN <<S("Wife")>> ELSE <<>>)
    \o (IF family.children # <<>> THEN <<S("FGR-Children")>> ELSE <<>>)

\* Section k has all its calls: a later section has begun or the call returned.
SectionComplete(k) ==
    \/ k < Len(callLog)
    \/ pc \in {"break", "step", "loop", "done"}
    \/ InFamily("recurse")

C18_RecursiveOnlyForFilterZero ==
    /\ [](menu.recursive # <<>> =>
             /\ menu.recursive[1].available <=> menu.filter_value = 0
             /\ menu.filter_value # 0 => menu.recursive[1].value = FALSE
             /\ menu.recursive[1].value = TRUE => menu.filter_value = 0)
    /\ [][(menu.recursive # <<>> /\ menu'.changes # menu.changes) =>
             /\ menu'.recursive # <<>>
             /\ menu'.recursive[1].value => menu.recursive[1].value
             /\ menu'.filter_value # 0 => ~menu'.recursive[1].value]_vars

\* C18 witness: the filter is back at 0 after a change away from 0 that found
\* the recursive option True; the option is available and False.
C18_Witness ==
    /\ menu.recursive # <<>>
    /\ Len(menu.changes) >= 2
    /\ menu.changes[Len(menu.changes)].filter = 0
    /\ menu.changes[Len(menu.changes) - 1].filter # 0
    /\ menu.changes[Len(menu.changes) - 1].recursive
    /\ menu.filter_value = 0
    /\ menu.recursive[1] = [value |-> FALSE, available |-> TRUE]

\* The elements open after a call, given the elements open before it
\* (innermost last); <<"bad">> once a call broke the nesting.
Nest(open, call) ==
    LET top == IF open = <<>> THEN "" ELSE open[Len(open)]
        Close(kind) == IF top = kind THEN SubSeq(open, 1, Len(open) - 1) ELSE <<"bad">>
    IN CASE open = <<"bad">> -> open
         [] call.op = "start_table" ->
              IF "table" \notin Range(open) THEN Append(open, "table") ELSE <<"bad">>
         [] call.op = "start_row" -> IF top = "table" THEN Append(open, "row") ELSE <<"bad">>
         [] call.op = "start_cell" -> IF top = "row" THEN Append(open, "cell") ELSE <<"bad">>
         [] call.op = "start_paragraph" ->
              IF "paragraph" \notin Range(open) THEN Append(open, "paragraph") ELSE <<"bad">>
         [] call.op = "end_table" -> Close("table")
         [] call.op = "end_row" -> Close("row")
         [] call.op = "end_cell" -> Close("cell")
         [] call.op = "end_paragraph" -> Close("paragraph")
         [] call.op = "page_break" -> IF open = <<>> THEN open ELSE <<"bad">>
         [] OTHER -> open

\* The elements open after the calls doc[i..n], given the elements open before.
RECURSIVE NestFrom(_, _, _)
NestFrom(open, i, n) == IF n < i THEN open ELSE Nest(NestFrom(open, i, n - 1), doc[n])

\* The elements open after the first n calls of the document (computed in
\* stretches of twenty calls).
RECURSIVE OpenAfter(_)
OpenAfter(n) ==
    IF n = 0 THEN <<>>
    ELSE LET from == ((n - 1) \div 20) * 20
             open == OpenAfter(from)
         IN IF open = <<"bad">> THEN open ELSE NestFrom(open, from + 1, n)

\* C19: the calls of the document are properly nested at every point: a row
\* starts right inside a table, a cell right inside a row, no table or
\* paragraph starts inside one of its kind, every end call closes the
\* innermost open element, a page break comes with nothing open; when the run
\* has ended normally nothing is open, and so it is whenever dump_family is
\* between two of its steps outside the children table.
C19_ProperNesting ==
    LET open == OpenAfter(Len(doc))
    IN /\ open # <<"bad">>
       /\ pc \in {"done", "break", "step", "loop", "empty"} => open = <<>>
       /\ (pc = "in_family" /\ Top.at # "child") => open = <<>>
       /\ InFamily("child") => open = <<"table">>

\* The document writes the text somewhere.
Writes(text) == \E i \in 1..Len(doc) : doc[i] = WriteText(text)

\* An event row labelled name whose date and place cells are both empty and
\* which has no description cell.
PlaceholderRow(name) ==
    \E i \in 1..Len(doc) :
        /\ i + 10 <= Len(doc)
        /\ doc[i] = WriteText(name)
        /\ doc[i + 5] = WriteText(Empty)
        /\ doc[i + 10] = WriteText(Empty)

\* C19 witness: a run has ended normally, with nothing left open, whose
\* document shows an event with a description only (the occupation), one with
\* date and place only (the birth), one with description and date (the death)
\* and one with neither (the absent birth of the mother).
C19_Witness ==
    /\ pc = "done"
    /\ opts.missingInfo /\ opts.incParEvents
    /\ Writes(S("baker"))
    /\ Writes(S("Lyon"))
    /\ Writes(S("old age")) /\ Writes(S("1940-03-03"))
    /\ PlaceholderRow(S("Birth"))
    /\ OpenAfter(Len(doc)) = <<>>

\* The positions of the family-section titles, in document order.
TitlePositions == Ascending({ i \in 1..Len(doc) : doc[i] = StartParagraph("FGR-Title") })

\* The page breaks of doc[from..to].
PageBreaks(from, to) == CallsOf({"page_break"}, from, to)

\* C20: in a run over a non-empty family list exactly one page break lies
\* between two consecutive family-section titles; when the run has ended
\* every dump_family call, recursive or not, has its title, exactly one page
\* break follows the last title and it is the last call of the document, so
\* the page breaks are as many as the dump_family calls.
C20_PageBreakPerSection ==
    fam_list # <<>> =>
        LET titles == TitlePositions
        IN /\ \A n \in 1..(Len(titles) - 1) :
                  Cardinality(PageBreaks(titles[n], titles[n + 1])) = 1
           /\ pc = "done" =>
                  /\ Len(titles) = Len(callLog)
                  /\ Cardinality(PageBreaks(titles[Len(titles)], Len(doc))) = 1
                  /\ doc[Len(doc)] = PageBreak
                  /\ Cardinality(PageBreaks(1, Len(doc))) = Len(callLog)

\* C20 witness: a recursive run over a list of two families or more has
\* ended after a dump_family call two levels below the list's.
C20_Witness ==
    /\ pc = "done"
    /\ opts.recursive
    /\ Len(fam_list) >= 2
    /\ \E k \in Sections : callLog[k].depth = 3
    /\ Cardinality(PageBreaks(1, Len(doc))) = Len(callLog)
    /\ Len(callLog) > Len(fam_list)

====
